---- MODULE Spec2Model ----
(***************************************************************************)
(* Model of scripts/notion_cleanup.py: main's loop over the configured     *)
(* databases, query_database (paginated query) and delete_page (archive    *)
(* with retry).  One step per network request; the remote service is the   *)
(* environment and answers nondeterministically.                           *)
(***************************************************************************)
EXTENDS Integers, Sequences, FiniteSets, TLC

\* ------------------------------------------------------------------ bounds
MaxTargets == 2    \* at most this many entries in config['databases']
MaxN == 3          \* at most this many matching records per database
MaxP == 2          \* the service's page size is in 1..MaxP
MaxFaults == 1     \* inconsistent (has_more, next_cursor) answers per pagination
MaxSeps == 2       \* dashes and spaces added to an argument of format_notion_id

\* ------------------------------------------------------- program constants
max_retries == 3
retry_delay == 1
PACE == 35         \* time.sleep(0.35), in hundredths of a second
RATE_LIMITED == 429
ID_LENGTH == 32    \* "if len(clean_id) != 32"

None == 0          \* start_cursor = None; cursors of the service are >= 1

VARIABLES
    nTargets,       \* len(config['databases'])
    db_config,      \* the entry of config['databases'] the for loop is at
    dry_run,        \* args.dry_run or env_dry_run
    pc,             \* "loop" | "query" | "delete" | "done"
    dbIdx,          \* number of db_config entries the for loop has taken
    db_dry_run,     \* effective dry-run flag of the current target
    total_queried, total_matched, total_deleted, total_failed,
    exit_status,    \* -1 until sys.exit
    page_ids,       \* query_database's accumulator, then main's page_ids
    has_more, start_cursor,
    itemIdx,        \* position of main's inner loop in page_ids (1-based)
    attempt,        \* delete_page's loop variable
    pag,            \* the pagination in progress: the service's result-set
                    \* size n and page size p, and what has been observed
    item,           \* observation of the current (or last finished) item
    tgt,            \* observation of the current target
    run,            \* observation of the whole run
    notion_id,      \* format_notion_id: its argument, a sequence of characters
    fmt             \* format_notion_id: position, result and warning

vars == <<nTargets, db_config, dry_run, pc, dbIdx, db_dry_run, total_queried,
          total_matched, total_deleted, total_failed, exit_status, page_ids,
          has_more, start_cursor, itemIdx, attempt, pag, item, tgt, run,
          notion_id, fmt>>

fmtVars == <<notion_id, fmt>>

\* --------------------------------------------------------------- helpers
Min(a, b) == IF a < b THEN a ELSE b
Max(a, b) == IF a > b THEN a ELSE b
Pow2(k) == IF k = 0 THEN 1 ELSE IF k = 1 THEN 2 ELSE IF k = 2 THEN 4 ELSE 8
CeilDiv(n, p) == (n + p - 1) \div p

\* A db_config either defines 'dry_run' or not.
DbConfigs == {[has_dry_run |-> FALSE, dry_run |-> FALSE],
              [has_dry_run |-> TRUE, dry_run |-> FALSE],
              [has_dry_run |-> TRUE, dry_run |-> TRUE]}

NoConfig == [has_dry_run |-> FALSE, dry_run |-> FALSE]

\* db_config.get('dry_run', dry_run)
EffectiveDryRun_Either(db, global) == db.dry_run \/ global
EffectiveDryRun(db, global) == IF db.has_dry_run THEN db.dry_run ELSE global

\* The identifier of record j of target t.
PageId(t, j) == <<t, j>>

\* The page the service serves from offset off (records off+1 .. off+p).
ServedPage(t, n, p, off) ==
    [j \in 1..Max(0, Min(p, n - off)) |-> PageId(t, off + j)]

\* The whole result set of target t, in the service's order.
ResultSet(t, n) == [j \in 1..n |-> PageId(t, j)]

\* body["start_cursor"] is sent only for a truthy cursor; the service
\* starts at the first record when the body has none.
RequestOffset(cursor) == IF cursor # None THEN cursor ELSE 0

\* "if start_cursor: body['start_cursor'] = start_cursor": the cursor the
\* request carries (None: the body has no start_cursor).
BodyCursor(cursor) == IF cursor # None THEN cursor ELSE None

\* The while condition of query_database.
ShouldContinue(hm, cursor) == hm

\* "if has_more: time.sleep(0.35)"
PaceAfterPage_Always(hm) == TRUE
PaceAfterPage(hm) == hm

\* The value query_database returns from its except clauses.
QueryFailResult_Partial(ids) == ids
QueryFailResult(ids) == <<>>

\* total_queried += 1
QueriedIncrement_NonEmptyOnly(ids) == IF Len(ids) = 0 THEN 0 ELSE 1
QueriedIncrement(ids) == 1

\* "if dry_run:" at the top of delete_page
SkipsRequest_Never(dry) == FALSE
SkipsRequest(dry) == dry

\* wait_time = retry_delay * (2 ** attempt)
BackoffWait_Linear(k) == retry_delay * (k + 1)
BackoffWait(k) == retry_delay * Pow2(k)

\* response.raise_for_status() passes
IsSuccess(status) == status >= 200 /\ status <= 299

\* "if e.response.status_code == 429"
IsRetryable_ServerErrors(status) == status = RATE_LIMITED \/ status >= 500
IsRetryable(status) == status = RATE_LIMITED

\* "for attempt in range(max_retries)" has another iteration after k
HasNextAttempt_OffByOne(k) == k + 1 <= max_retries
HasNextAttempt(k) == k + 1 < max_retries

\* "if total_failed > 0: sys.exit(1)" else sys.exit(0)
ExitStatus_MoreThanOne(failed) == IF failed > 1 THEN 1 ELSE 0
ExitStatus(failed) == IF failed > 0 THEN 1 ELSE 0

\* Answers of the service to a PATCH: a status, or 0 for a transport error.
PatchAnswers == {0, 200, 204, 429, 404, 500}
\* Outcomes of a query request.
QueryKinds == {"ok", "http_error", "transport_error", "bad_json"}

NoPag == [status |-> "none", n |-> 0, p |-> 1, faults |-> 0, queries |-> 0,
          pauses |-> 0, pausePending |-> FALSE, consistent |-> TRUE,
          cursorless |-> FALSE, lateQueries |-> 0, collected |-> 0,
          sent |-> None, prevCursor |-> None, respCursor |-> None]

NoFmt == [pc |-> "idle", inserted |-> 0, out |-> <<>>, warned |-> FALSE]

NoItem == [patches |-> 0, rl |-> 0, backoff |-> 0, lastWait |-> 0,
           lastResp |-> "none", outcome |-> "none", done |-> FALSE]

\* ------------------------------------------------------------------ Init
Init ==
    /\ nTargets \in 0..MaxTargets
    /\ db_config = NoConfig
    /\ dry_run \in BOOLEAN
    /\ pc = "loop"
    /\ dbIdx = 0
    /\ db_dry_run = FALSE
    /\ total_queried = 0 /\ total_matched = 0
    /\ total_deleted = 0 /\ total_failed = 0
    /\ exit_status = -1
    /\ page_ids = <<>> /\ has_more = FALSE /\ start_cursor = None
    /\ itemIdx = 0 /\ attempt = 0
    /\ pag = NoPag
    /\ item = NoItem
    /\ tgt = [queried |-> 0, matched |-> 0, deleted |-> 0, failed |-> 0,
              patches |-> 0, deleteCalls |-> 0, called |-> <<>>]
    /\ run = [succeeded |-> 0, failedItems |-> 0, skipped |-> 0,
              dryPatches |-> 0, sinceReq |-> 0, returned |-> 0]
    /\ notion_id = <<>>
    /\ fmt = NoFmt

\* --------------------------------------------------------- main: for loop
\* main, after query_database returned ids: the counters, then either
\* "continue" (no records) or the start of the inner loop.
MainAfterQuery_BreakOnEmpty(ids) ==
    /\ total_queried' = total_queried + QueriedIncrement(ids)
    /\ total_matched' = total_matched + Len(ids)
    /\ page_ids' = ids
    /\ IF Len(ids) = 0
         THEN pc' = "done" /\ itemIdx' = 0
         ELSE pc' = "delete" /\ itemIdx' = 1
MainAfterQuery(ids) ==
    /\ total_queried' = total_queried + QueriedIncrement(ids)
    /\ total_matched' = total_matched + Len(ids)
    /\ page_ids' = ids
    /\ IF Len(ids) = 0
         THEN pc' = "loop" /\ itemIdx' = 0
         ELSE pc' = "delete" /\ itemIdx' = 1

\* main, after delete_page returned success for page_ids[itemIdx].
MainAfterDelete_BreakOnFailure(success) ==
    /\ total_deleted' = IF success THEN total_deleted + 1 ELSE total_deleted
    /\ total_failed' = IF success THEN total_failed ELSE total_failed + 1
    /\ itemIdx' = itemIdx + 1
    /\ pc' = IF success /\ itemIdx < Len(page_ids) THEN "delete" ELSE "loop"
MainAfterDelete(success) ==
    /\ total_deleted' = IF success THEN total_deleted + 1 ELSE total_deleted
    /\ total_failed' = IF success THEN total_failed ELSE total_failed + 1
    /\ itemIdx' = itemIdx + 1
    /\ pc' = IF itemIdx < Len(page_ids) THEN "delete" ELSE "loop"

\* The for loop takes the next db_config and enters query_database, whose
\* has_more = True makes the while body run at least once.  The entries of
\* config['databases'] are read-only input: each is drawn when the loop
\* reaches it, together with the result set the service holds for it.
NextTarget ==
    /\ pc = "loop"
    /\ dbIdx < nTargets
    /\ dbIdx' = dbIdx + 1
    /\ \E db \in DbConfigs :
          /\ db_config' = db
          /\ db_dry_run' = EffectiveDryRun(db, dry_run)
    /\ page_ids' = <<>>
    /\ has_more' = TRUE
    /\ start_cursor' = None
    /\ pc' = "query"
    /\ itemIdx' = 0
    /\ attempt' = 0
    /\ \E n \in 0..MaxN, p \in 1..MaxP :
          pag' = [NoPag EXCEPT !.status = "running", !.n = n, !.p = p]
    /\ item' = NoItem
    /\ tgt' = [queried |-> total_queried, matched |-> total_matched,
               deleted |-> total_deleted, failed |-> total_failed,
               patches |-> 0, deleteCalls |-> 0, called |-> <<>>]
    /\ run' = run
    /\ UNCHANGED fmtVars
    /\ UNCHANGED <<nTargets, dry_run, total_queried, total_matched,
                   total_deleted, total_failed, exit_status>>

\* ------------------------------------------------------- query_database
\* One iteration of the while loop whose request fails: raise_for_status,
\* the transport or response.json() raises and an except clause returns.
QueryError ==
    /\ pc = "query"
    /\ \E kind \in QueryKinds \ {"ok"} :
        /\ MainAfterQuery(QueryFailResult(page_ids))
        /\ pag' = [pag EXCEPT !.status = "failed", !.queries = @ + 1,
                              !.pausePending = FALSE,
                              !.lateQueries = IF pag.cursorless THEN @ + 1 ELSE @,
                              !.collected = Len(page_ids),
                              !.sent = BodyCursor(start_cursor),
                              !.prevCursor = pag.respCursor,
                              !.respCursor = None]
    /\ run' = [run EXCEPT !.sinceReq = 0,
                          !.returned = @ + Len(QueryFailResult(page_ids))]
    /\ UNCHANGED fmtVars
    /\ has_more' = FALSE
    /\ start_cursor' = None
    /\ UNCHANGED <<nTargets, db_config, dry_run, dbIdx, db_dry_run, total_deleted,
                   total_failed, exit_status, attempt, item, tgt>>

\* One iteration of the while loop whose request is answered with a page.
\* The service serves the page at the requested offset; it answers has_more
\* and next_cursor consistently (has_more and a cursor exactly when records
\* remain), or, at most budget times in one pagination, in any other way.
QueryPageWith(budget) ==
    /\ pc = "query"
    /\ LET off == RequestOffset(start_cursor)
           results == ServedPage(dbIdx, pag.n, pag.p, off)
           ids == page_ids \o results
       IN \E hm \in BOOLEAN, nc \in {None, off + pag.p} :
            LET cons == /\ hm = (off + pag.p < pag.n)
                        /\ nc = IF hm THEN off + pag.p ELSE None
                paced == PaceAfterPage(hm)
                again == ShouldContinue(hm, nc)
            IN /\ cons \/ pag.faults < budget
               /\ has_more' = (again /\ hm)
               /\ start_cursor' = IF again THEN nc ELSE None
               /\ run' = [run EXCEPT
                     !.sinceReq = IF paced THEN PACE ELSE 0,
                     !.returned = IF again THEN @ ELSE @ + Len(ids)]
               /\ IF again
                    THEN /\ pc' = "query"
                         /\ page_ids' = ids
                         /\ UNCHANGED <<total_queried, total_matched, itemIdx>>
                    ELSE MainAfterQuery(ids)
               /\ pag' = [pag EXCEPT
                     !.status = IF again THEN "running" ELSE "ok",
                     !.faults = IF cons THEN @ ELSE @ + 1,
                     !.queries = @ + 1,
                     !.pauses = IF paced THEN @ + 1 ELSE @,
                     !.pausePending = paced,
                     !.consistent = @ /\ cons,
                     !.cursorless = @ \/ nc = None,
                     !.lateQueries = IF pag.cursorless THEN @ + 1 ELSE @,
                     !.collected = Len(ids),
                     !.sent = BodyCursor(start_cursor),
                     !.prevCursor = pag.respCursor,
                     !.respCursor = nc]
    /\ UNCHANGED fmtVars
    /\ UNCHANGED <<nTargets, db_config, dry_run, dbIdx, db_dry_run, total_deleted,
                   total_failed, exit_status, attempt, item, tgt>>

\* The service honours its contract.
QueryPage == QueryPageWith(0)

\* The service may answer inconsistently.
QueryPageInconsistent == QueryPageWith(MaxFaults)

\* ---------------------------------------------------------- delete_page
\* "for i, page_id in enumerate(page_ids, 1)": the page_id delete_page is
\* called with.
CurrentPageId_First == page_ids[1]
CurrentPageId == page_ids[itemIdx]

\* delete_page under dry_run: logs and returns True without a request.
DryRunSkip ==
    /\ pc = "delete"
    /\ SkipsRequest(db_dry_run)
    /\ MainAfterDelete(TRUE)
    /\ attempt' = 0
    /\ item' = [NoItem EXCEPT !.outcome = "SkippedDryRun", !.done = TRUE]
    /\ tgt' = [tgt EXCEPT !.deleteCalls = @ + 1,
                          !.called = Append(@, CurrentPageId)]
    /\ UNCHANGED fmtVars
    /\ run' = [run EXCEPT !.skipped = @ + 1]
    /\ pag' = NoPag
    /\ UNCHANGED <<nTargets, db_config, dry_run, dbIdx, db_dry_run, total_queried,
                   total_matched, exit_status, page_ids, has_more,
                   start_cursor>>

\* How the service's answer to a PATCH is classed (0: no answer at all).
AnswerClass(ans) ==
    IF ans = 0 THEN "transport"
    ELSE IF ans >= 200 /\ ans <= 299 THEN "ok"
    ELSE IF ans = 429 THEN "rate"
    ELSE "hard"

\* One iteration of delete_page's for loop: the PATCH and what follows it.
PatchRequest ==
    /\ pc = "delete"
    /\ ~SkipsRequest(db_dry_run)
    /\ \E ans \in PatchAnswers :
        LET base == IF attempt = 0 THEN NoItem ELSE item
            sent == [base EXCEPT !.patches = @ + 1,
                                 !.lastResp = AnswerClass(ans),
                                 !.rl = IF ans = 429 THEN @ + 1 ELSE @]
            wait == BackoffWait(attempt)
        IN
        /\ pag' = NoPag
        /\ tgt' = [tgt EXCEPT !.patches = @ + 1,
                              !.deleteCalls = IF attempt = 0 THEN @ + 1 ELSE @,
                              !.called = IF attempt = 0
                                           THEN Append(@, CurrentPageId) ELSE @]
        /\ IF ans # 0 /\ IsSuccess(ans)
             THEN \* logged, time.sleep(0.35), return True
                  /\ MainAfterDelete(TRUE)
                  /\ attempt' = 0
                  /\ item' = [sent EXCEPT !.outcome = "Succeeded", !.done = TRUE]
                  /\ run' = [run EXCEPT !.succeeded = @ + 1, !.sinceReq = PACE,
                         !.dryPatches = IF db_dry_run THEN @ + 1 ELSE @]
           ELSE IF ans # 0 /\ IsRetryable(ans)
             THEN \* time.sleep(wait_time), then the next iteration if any
                  IF HasNextAttempt(attempt)
                    THEN /\ attempt' = attempt + 1
                         /\ item' = [sent EXCEPT !.backoff = @ + wait,
                                                 !.lastWait = wait]
                         /\ run' = [run EXCEPT !.sinceReq = 100 * wait,
                                !.dryPatches = IF db_dry_run THEN @ + 1 ELSE @]
                         /\ UNCHANGED <<pc, itemIdx, total_deleted, total_failed>>
                    ELSE /\ MainAfterDelete(FALSE)
                         /\ attempt' = 0
                         /\ item' = [sent EXCEPT !.backoff = @ + wait,
                                                 !.lastWait = wait,
                                                 !.outcome = "Failed",
                                                 !.done = TRUE]
                         /\ run' = [run EXCEPT !.failedItems = @ + 1,
                                !.sinceReq = 100 * wait,
                                !.dryPatches = IF db_dry_run THEN @ + 1 ELSE @]
           ELSE \* any other status, or an exception: return False
                  /\ MainAfterDelete(FALSE)
                  /\ attempt' = 0
                  /\ item' = [sent EXCEPT !.outcome = "Failed", !.done = TRUE]
                  /\ run' = [run EXCEPT !.failedItems = @ + 1, !.sinceReq = 0,
                         !.dryPatches = IF db_dry_run THEN @ + 1 ELSE @]
    /\ UNCHANGED <<nTargets, db_config, dry_run, dbIdx, db_dry_run, total_queried,
                   total_matched, exit_status, page_ids, has_more,
                   start_cursor>>
    /\ UNCHANGED fmtVars

\* ------------------------------------------------------- main: the exit
\* After the last db_config: the summary is logged and the process exits.
Exit ==
    /\ pc = "loop"
    /\ dbIdx = nTargets
    /\ exit_status' = ExitStatus(total_failed)
    /\ pc' = "done"
    /\ UNCHANGED <<nTargets, db_config, dry_run, dbIdx, db_dry_run, total_queried,
                   total_matched, total_deleted, total_failed, page_ids,
                   has_more, start_cursor, itemIdx, attempt, pag, item,
                   tgt, run>>
    /\ UNCHANGED fmtVars

Next ==
    \/ NextTarget
    \/ QueryError
    \/ QueryPage
    \/ DryRunSkip
    \/ PatchRequest
    \/ Exit

Spec == Init /\ [][Next]_vars

\* The same program against a service that may answer has_more and
\* next_cursor inconsistently.
NextInconsistent ==
    \/ NextTarget
    \/ QueryError
    \/ QueryPageInconsistent
    \/ DryRunSkip
    \/ PatchRequest
    \/ Exit

SpecInconsistent == Init /\ [][NextInconsistent]_vars

\* The program is one sequential thread and every request returns (a
\* response, an HTTP error, or the timeout of httpx.post / httpx.patch), so a
\* step that can be taken is taken.
FairSpec == Spec /\ WF_vars(Next)

TypeOK ==
    /\ pc \in {"loop", "query", "delete", "done"}
    /\ dbIdx \in 0..nTargets
    /\ attempt \in 0..(max_retries - 1)
    /\ exit_status \in {-1, 0, 1}
    /\ pag.faults \in 0..MaxFaults

\* ------------------------------------------------------ format_notion_id
\* Characters are one-character strings.
HexDigits == <<"0", "1", "2", "3", "4", "5", "6", "7",
               "8", "9", "a", "b", "c", "d", "e", "f">>
Separators == {"-", " "}

\* A hex string of length n whose neighbouring characters differ.
HexString(n) == [i \in 1..n |-> HexDigits[((i - 1) % 16) + 1]]

\* The UUID form of HexString(32), written out.
DashedId ==
    <<"0", "1", "2", "3", "4", "5", "6", "7", "-", "8", "9", "a", "b", "-",
      "c", "d", "e", "f", "-", "0", "1", "2", "3", "-", "4", "5", "6", "7",
      "8", "9", "a", "b", "c", "d", "e", "f">>

\* clean_id = notion_id.replace('-', '').replace(' ', '')
CleanId(id) == SelectSeq(id, LAMBDA ch : ch \notin Separators)

\* format_notion_id: the value returned and whether the warning is logged.
FormatNotionId_WrongGroup(id) ==
    LET clean_id == CleanId(id) IN
    IF Len(clean_id) # ID_LENGTH
      THEN [out |-> id, warned |-> TRUE]
      ELSE [out |-> SubSeq(clean_id, 1, 8) \o <<"-">> \o
                    SubSeq(clean_id, 9, 12) \o <<"-">> \o
                    SubSeq(clean_id, 13, 16) \o <<"-">> \o
                    SubSeq(clean_id, 16, 20) \o <<"-">> \o
                    SubSeq(clean_id, 21, Len(clean_id)),
            warned |-> FALSE]
FormatNotionId(id) ==
    LET clean_id == CleanId(id) IN
    IF Len(clean_id) # ID_LENGTH
      THEN [out |-> id, warned |-> TRUE]
      ELSE [out |-> SubSeq(clean_id, 1, 8) \o <<"-">> \o
                    SubSeq(clean_id, 9, 12) \o <<"-">> \o
                    SubSeq(clean_id, 13, 16) \o <<"-">> \o
                    SubSeq(clean_id, 17, 20) \o <<"-">> \o
                    SubSeq(clean_id, 21, Len(clean_id)),
            warned |-> FALSE]

\* The arguments tried: hex strings of length 31..33 and a UUID with dashes,
\* each with up to MaxSeps dashes or spaces added anywhere.
FormatInputs ==
    {HexString(n) : n \in (ID_LENGTH - 1)..(ID_LENGTH + 1)} \cup {DashedId}

InitFormat ==
    /\ nTargets = 0
    /\ db_config = NoConfig
    /\ dry_run = FALSE
    /\ pc = "loop"
    /\ dbIdx = 0
    /\ db_dry_run = FALSE
    /\ total_queried = 0 /\ total_matched = 0
    /\ total_deleted = 0 /\ total_failed = 0
    /\ exit_status = -1
    /\ page_ids = <<>> /\ has_more = FALSE /\ start_cursor = None
    /\ itemIdx = 0 /\ attempt = 0
    /\ pag = NoPag
    /\ item = NoItem
    /\ tgt = [queried |-> 0, matched |-> 0, deleted |-> 0, failed |-> 0,
              patches |-> 0, deleteCalls |-> 0, called |-> <<>>]
    /\ run = [succeeded |-> 0, failedItems |-> 0, skipped |-> 0,
              dryPatches |-> 0, sinceReq |-> 0, returned |-> 0]
    /\ notion_id \in FormatInputs
    /\ fmt = [NoFmt EXCEPT !.pc = "input"]

mainVars == <<nTargets, db_config, dry_run, pc, dbIdx, db_dry_run,
              total_queried, total_matched, total_deleted, total_failed,
              exit_status, page_ids, has_more, start_cursor, itemIdx,
              attempt, pag, item, tgt, run>>

\* The caller's string gets one more dash or space.
InsertSeparator ==
    /\ fmt.pc = "input"
    /\ fmt.inserted < MaxSeps
    /\ \E pos \in 0..Len(notion_id), ch \in Separators :
          notion_id' = SubSeq(notion_id, 1, pos) \o <<ch>> \o
                       SubSeq(notion_id, pos + 1, Len(notion_id))
    /\ fmt' = [fmt EXCEPT !.inserted = @ + 1]
    /\ UNCHANGED mainVars

\* format_notion_id(notion_id)
FormatCall ==
    /\ fmt.pc = "input"
    /\ LET r == FormatNotionId(notion_id)
       IN fmt' = [fmt EXCEPT !.pc = "done", !.out = r.out,
                             !.warned = r.warned]
    /\ UNCHANGED <<notion_id, mainVars>>

NextFormat ==
    \/ InsertSeparator
    \/ FormatCall

SpecFormat == InitFormat /\ [][NextFormat]_vars

\* ------------------------------------------------------------ properties
\* The backoff waits the documentation of delete_page's retry names.
WaitOnAttempt(k) == CASE k = 0 -> 1 [] k = 1 -> 2 [] k = 2 -> 4
\* Their sum over the first r attempts.
WaitsOver(r) == CASE r = 0 -> 0 [] r = 1 -> 1 [] r = 2 -> 3 [] r = 3 -> 7

NoDuplicates(ids) == Cardinality({ids[i] : i \in 1..Len(ids)}) = Len(ids)

\* C1: once a query response of a pagination carried no next_cursor, no
\* further query request is issued in that pagination, whatever has_more
\* said.  (Fails: the while condition reads has_more alone.)
C1_CursorlessEndsPagination == pag.lateQueries = 0

\* C2: no PATCH is ever sent for an item of a target whose effective
\* dry-run flag is true.
C2_DryRunNoPatch == run.dryPatches = 0

C2_Witness ==
    /\ db_dry_run
    /\ item.outcome = "SkippedDryRun"
    /\ tgt.deleteCalls >= 2

\* C3: while a dry-run target is processed, total_deleted and total_failed
\* stay what they were when the target began.  (Fails: delete_page returns
\* True under dry_run and main counts it in total_deleted.)
C3_DryRunLeavesCounts ==
    db_dry_run => (total_deleted = tgt.deleted /\ total_failed = tgt.failed)

\* C4: a live item gets at most 3 PATCH requests; three rate-limit answers
\* end it as Failed with exactly 3 requests sent.
C4_AtMostThreeAttempts ==
    /\ item.patches <= 3
    /\ item.rl = 3 =>
         /\ item.done
         /\ item.outcome = "Failed"
         /\ item.patches = 3
         /\ attempt = 0

C4_Witness ==
    /\ item.rl = 3
    /\ item.outcome = "Failed"
    /\ run.failedItems = 1
    /\ total_failed = 1

C6_HardFailEndsItem ==
    item.lastResp \in {"hard", "transport"} =>
        /\ item.done
        /\ item.outcome = "Failed"
        /\ attempt = 0
        /\ item.patches = item.rl + 1
        /\ item.backoff = WaitsOver(item.rl)
        /\ run.sinceReq = 0

C6_Witness ==
    /\ item.lastResp = "hard"
    /\ item.patches = 3
    /\ item.outcome = "Failed"

\* C7: at exit the status is 0 exactly when total_failed is 0, and any
\* Failed item outcome of the run makes it 1.
C7_ExitStatus ==
    pc = "done" =>
        /\ exit_status \in {0, 1}
        /\ (exit_status = 0) <=> (total_failed = 0)
        /\ run.failedItems > 0 => exit_status = 1

C7_Witness ==
    /\ pc = "done"
    /\ exit_status = 1
    /\ run.failedItems = 1
    /\ run.succeeded >= 2
    /\ dbIdx = 2
    /\ item.outcome = "Succeeded"

\* C8: a pagination one of whose query requests failed returns the empty
\* list: nothing is added to total_matched, delete_page is not called and
\* no PATCH is sent for the target.
C8_FailedQueryYieldsNothing ==
    pag.status = "failed" =>
        /\ page_ids = <<>>
        /\ total_matched = tgt.matched
        /\ tgt.deleteCalls = 0
        /\ tgt.patches = 0
        /\ pc \in {"loop", "done"}

C8_Witness ==
    /\ pag.status = "failed"
    /\ pag.queries = 3
    /\ pag.collected = 2
    /\ ~db_dry_run

\* C9 as stated: a consistent pagination of N records with page size P
\* returns the N identifiers without duplicates in exactly ceil(N/P)
\* requests, with a pause between consecutive requests only.
C9_Original ==
    (pag.status = "ok" /\ pag.consistent) =>
        /\ page_ids = ResultSet(dbIdx, pag.n)
        /\ NoDuplicates(page_ids)
        /\ pag.queries = CeilDiv(pag.n, pag.p)
        /\ pag.pauses = Max(0, pag.queries - 1)
        /\ ~pag.pausePending

\* C9 amended: as above, with max(1, ceil(N/P)) requests (an empty result
\* set still takes the one request that finds it empty); while the
\* pagination runs, every request made so far was followed by a pause, so
\* each follow-up request comes after one and the first after none.
C9_Paginator ==
    /\ (pag.status = "ok" /\ pag.consistent) =>
        /\ page_ids = ResultSet(dbIdx, pag.n)
        /\ Len(page_ids) = pag.n
        /\ NoDuplicates(page_ids)
        /\ pag.queries = Max(1, CeilDiv(pag.n, pag.p))
        /\ pag.pauses = pag.queries - 1
        /\ ~pag.pausePending
    /\ (pag.status = "running" /\ pag.consistent) =>
        /\ pag.pauses = pag.queries
        /\ pag.pausePending = (pag.queries > 0)
        /\ pag.queries > 0 => run.sinceReq = PACE

C9_Witness ==
    /\ pag.status = "ok"
    /\ pag.consistent
    /\ pag.n = 3 /\ pag.p = 2
    /\ pag.queries = 2
    /\ pag.pauses = 1
    /\ Len(page_ids) = 3

\* C10: a target whose pagination yields no identifier adds exactly 1 to
\* total_queried and nothing to the other counters, delete_page is not
\* called for it, and main is back at the for loop, which takes the next
\* db_config when there is one.
C10_EmptyTarget ==
    (pag.status \in {"ok", "failed"} /\ page_ids = <<>>) =>
        /\ total_queried = tgt.queried + 1
        /\ total_matched = tgt.matched
        /\ total_deleted = tgt.deleted
        /\ total_failed = tgt.failed
        /\ tgt.deleteCalls = 0
        /\ tgt.patches = 0
        /\ pc \in {"loop", "done"}
        /\ (pc = "loop" /\ dbIdx < nTargets) => ENABLED NextTarget

C10_Witness ==
    /\ pag.status = "ok"
    /\ page_ids = <<>>
    /\ pc = "loop"
    /\ dbIdx = 1
    /\ nTargets = 2
    /\ total_queried = 1
    /\ ENABLED NextTarget

\* C11: no query error, rate-limit exhaustion, hard error or transport
\* error aborts the run: the run reaches its exit; at the exit every
\* configured target has been taken by the loop and queried; and each time
\* main is back at the for loop, delete_page has been called for every
\* identifier the target's pagination returned.
C11_RunCompletes ==
    /\ <>(pc = "done")
    /\ [](pc = "done" =>
            /\ dbIdx = nTargets
            /\ total_queried = nTargets
            /\ exit_status \in {0, 1})
    /\ [](pc \in {"loop", "done"} => tgt.called = page_ids)

C11_Witness ==
    /\ pc = "done"
    /\ nTargets = 2
    /\ total_queried = 2
    /\ pag.status = "failed"
    /\ run.failedItems >= 2
    /\ run.succeeded >= 1

\* C12: at the exit the summary is the tally of what happened: targets =
\* configured targets, matched = identifiers the paginations returned,
\* succeeded = items whose outcome is Succeeded, failed = items whose outcome
\* is Failed.  (Fails: a dry-run item, whose outcome is SkippedDryRun, is
\* counted in total_deleted.)
C12_SummaryIsTally ==
    pc = "done" =>
        /\ total_queried = nTargets
        /\ total_matched = run.returned
        /\ total_deleted = run.succeeded
        /\ total_failed = run.failedItems

\* The scenario of C12 on live targets: A returns two identifiers, the first
\* is archived and the second gets a non-429 error, B returns none; then the
\* summary is {2, 2, 1, 1} and the exit status is 1.
C12_Scenario ==
    (/\ pc = "done" /\ nTargets = 2
     /\ run.returned = 2 /\ run.succeeded = 1 /\ run.failedItems = 1
     /\ run.skipped = 0) =>
        /\ total_queried = 2 /\ total_matched = 2
        /\ total_deleted = 1 /\ total_failed = 1
        /\ exit_status = 1

\* C13: when the global dry-run mode is on, no PATCH is sent for any target.
\* (Fails: a db_config with 'dry_run': false is processed live.)
C13_GlobalDryRunNoPatch == dry_run => tgt.patches = 0

\* A step that sends a network request: a query or a PATCH.
IsRequestStep ==
    \/ pag'.queries = pag.queries + 1
    \/ tgt'.patches = tgt.patches + 1

\* No request has been sent yet in the run.
BeforeFirstRequest == dbIdx = 1 /\ pag.status = "running" /\ pag.queries = 0

\* C15: every network request but the first of the run is sent after a pause
\* of at least 0.35 s since the request before it.  (Fails: no pause follows
\* a failed PATCH, a failed query or the last page of a pagination.)
C15_PacedRequests ==
    [][(IsRequestStep /\ ~BeforeFirstRequest) => run.sinceReq >= PACE]_vars

\* C18: the first query request of a pagination carries no cursor and every
\* follow-up request carries the cursor of the response just before it,
\* never none.  (Fails after a response with has_more and no next_cursor:
\* the follow-up request carries no cursor.)
C18_CursorEcho ==
    pag.queries >= 1 =>
        IF pag.queries = 1
          THEN pag.sent = None
          ELSE pag.sent = pag.prevCursor /\ pag.sent # None

\* C16: delete_page is called once per element of the list query_database
\* returned, in its order and for nothing else; no PATCH and no delete_page
\* call happens while the target's pagination runs, and no query request is
\* sent once the target's first delete_page call has been made.
C16_Snapshot ==
    /\ Len(tgt.called) <= Len(page_ids)
    /\ tgt.called = SubSeq(page_ids, 1, Len(tgt.called))
    /\ tgt.deleteCalls = Len(tgt.called)
    /\ pc = "query" => (tgt.called = <<>> /\ tgt.patches = 0)
    /\ pc = "delete" =>
         /\ pag.status \in {"ok", "none"}
         /\ Len(tgt.called) = IF attempt > 0 THEN itemIdx ELSE itemIdx - 1
    /\ pc \in {"loop", "done"} => tgt.called = page_ids
    /\ Len(tgt.called) > 0 => (pag.queries = 0 /\ pag.status = "none")

C16_Witness ==
    /\ pc = "loop"
    /\ Len(page_ids) = 3
    /\ tgt.called = page_ids
    /\ tgt.patches >= 4
    /\ ~db_dry_run

\* C17: the effective dry-run flag of a target is its own 'dry_run' when the
\* db_config defines one and the global flag otherwise: a target with
\* dry_run = false gets a PATCH for every delete_page call even under the
\* global flag, and a target with dry_run = true gets none even without it.
C17_EffectiveDryRun ==
    dbIdx > 0 =>
        /\ db_config.has_dry_run => db_dry_run = db_config.dry_run
        /\ ~db_config.has_dry_run => db_dry_run = dry_run
        /\ (db_config.has_dry_run /\ ~db_config.dry_run) =>
             /\ tgt.patches >= tgt.deleteCalls
             /\ item.outcome # "SkippedDryRun"
        /\ (db_config.has_dry_run /\ db_config.dry_run) =>
             /\ tgt.patches = 0
             /\ item.outcome \in {"none", "SkippedDryRun"}
        /\ (~db_config.has_dry_run /\ dry_run) => tgt.patches = 0
        /\ (~db_config.has_dry_run /\ ~dry_run) =>
             tgt.patches >= tgt.deleteCalls

C17_Witness ==
    /\ dry_run
    /\ db_config.has_dry_run
    /\ ~db_config.dry_run
    /\ tgt.patches >= 1
    /\ item.outcome = "Succeeded"

\* C19: total_deleted + total_failed never exceeds total_matched; the
\* difference is the number of identifiers of the current target still to
\* be processed, so it is zero whenever main is not inside the delete loop.
C19_CountsBounded ==
    /\ total_deleted + total_failed <= total_matched
    /\ pc = "delete" =>
         total_matched - (total_deleted + total_failed)
             = Len(page_ids) - (itemIdx - 1)
    /\ pc # "delete" => total_deleted + total_failed = total_matched

C19_Witness ==
    /\ pc = "done"
    /\ nTargets = 2
    /\ total_matched >= 4
    /\ total_deleted >= 1
    /\ total_failed >= 1
    /\ run.skipped >= 1

\* C20: a failed pagination changes the counters exactly as a target without
\* records does (one more target processed, nothing else), and a run without
\* a Failed item exits with status 0 whatever its paginations did.
C20_QueryFailureNeutral ==
    /\ (pc = "done" /\ run.failedItems = 0) => exit_status = 0
    /\ pag.status = "failed" =>
         /\ total_queried = tgt.queried + 1
         /\ total_matched = tgt.matched
         /\ total_deleted = tgt.deleted
         /\ total_failed = tgt.failed
         /\ run.failedItems = total_failed

C20_Witness ==
    /\ pc = "done"
    /\ exit_status = 0
    /\ pag.status = "failed"
    /\ pag.collected >= 1
    /\ nTargets = 2
    /\ total_queried = 2
    /\ run.succeeded >= 1

\* A string without its dashes and spaces.
RECURSIVE Strip(_)
Strip(id) ==
    IF id = <<>> THEN <<>>
    ELSE IF Head(id) = "-" \/ Head(id) = " " THEN Strip(Tail(id))
    ELSE <<Head(id)>> \o Strip(Tail(id))

\* out is the 8-4-4-4-12 form of the 32 characters c.
IsDashedFormOf(out, c) ==
    /\ Len(out) = 36
    /\ \A i \in 1..36 : (out[i] = "-") <=> (i \in {9, 14, 19, 24})
    /\ Strip(out) = c

\* C14 as stated: a 32-character string without dashes comes back in
\* 8-4-4-4-12 form, same characters in the same order, and a string of any
\* other length comes back unchanged.
C14_Original ==
    fmt.pc = "done" =>
        /\ (Len(notion_id) = 32 /\ Strip(notion_id) = notion_id) =>
             (IsDashedFormOf(fmt.out, notion_id) /\ ~fmt.warned)
        /\ Len(notion_id) # 32 => fmt.out = notion_id

\* C14 amended: the length that decides is the length without dashes and
\* spaces.  When it is 32 the result is the 8-4-4-4-12 form of the remaining
\* characters in their order (so for a 32-character hex string without
\* dashes, of that string), without warning; otherwise the argument comes
\* back unchanged with a warning.
C14_Format ==
    fmt.pc = "done" =>
        /\ Len(Strip(notion_id)) = 32 =>
             (IsDashedFormOf(fmt.out, Strip(notion_id)) /\ ~fmt.warned)
        /\ Len(Strip(notion_id)) # 32 =>
             (fmt.out = notion_id /\ fmt.warned)
        /\ (Len(notion_id) = 32 /\ Strip(notion_id) = notion_id) =>
             IsDashedFormOf(fmt.out, notion_id)

C14_Witness ==
    /\ fmt.pc = "done"
    /\ notion_id = HexString(32)
    /\ fmt.out = DashedId
    /\ ~fmt.warned

====
